---------------------------- MODULE Spec2Model ----------------------------
(***************************************************************************)
(* A model of k8s-e2e-log-combiner: the program of src/unnamed/part_000    *)
(* (lines 17-214, the variant that reads a bucket or a local directory),   *)
(* and after it the program of src/combiner.go, which keeps the time of a  *)
(* line as text (getTimeKey).                                              *)
(*                                                                         *)
(* Strings are sequences of one-character strings, compared byte-wise as   *)
(* Go compares strings.  A time.Time is a record of the fields the program *)
(* reads: time.Time{} is 00:00:00 of year 1, a time parsed from a layout   *)
(* without a date is of year 0.                                            *)
(***************************************************************************)
EXTENDS Integers, Sequences, FiniteSets, TLC

(***************************************************************************)
(* Bytes and strings                                                       *)
(***************************************************************************)

\* The printable ASCII characters in byte order, from 32 (space) to 126.  Byte 96
\* (the grave accent) cannot be written in a TLA+ string: its place is held by a
\* name no modelled text contains.
Ascii ==
  << " ", "!", "\"", "#", "$", "%", "&", "'", "(", ")", "*", "+", ",", "-", ".", "/",
     "0", "1", "2", "3", "4", "5", "6", "7", "8", "9", ":", ";", "<", "=", ">", "?",
     "@", "A", "B", "C", "D", "E", "F", "G", "H", "I", "J", "K", "L", "M", "N", "O",
     "P", "Q", "R", "S", "T", "U", "V", "W", "X", "Y", "Z", "[", "\\", "]", "^", "_",
     "GRAVE", "a", "b", "c", "d", "e", "f", "g", "h", "i", "j", "k", "l", "m", "n", "o",
     "p", "q", "r", "s", "t", "u", "v", "w", "x", "y", "z", "{", "|", "}", "~" >>

\* The byte value of a character.
Ord(c) == 31 + (CHOOSE k \in 1..Len(Ascii) : Ascii[k] = c)

DigitChars == <<"0", "1", "2", "3", "4", "5", "6", "7", "8", "9">>

\* \d of the regular expressions: an ASCII digit.
IsDigit(c) == c \in {"0", "1", "2", "3", "4", "5", "6", "7", "8", "9"}

DigitVal(c) == (CHOOSE k \in 1..10 : DigitChars[k] = c) - 1

Min(a, b) == IF a < b THEN a ELSE b

\* Go's s[from:] with a 0-based start.
SliceFrom(s, from) == SubSeq(s, from + 1, Len(s))

\* Go's a < b on strings: byte-wise, a proper prefix is smaller.
StrLess(a, b) ==
  LET n == Min(Len(a), Len(b))
      diff == {k \in 1..n : a[k] # b[k]}
  IN  IF diff = {}
      THEN Len(a) < Len(b)
      ELSE LET d == CHOOSE k \in diff : \A j \in diff : k <= j
           IN  Ord(a[d]) < Ord(b[d])

\* strings.TrimPrefix
TrimPrefix(s, p) ==
  IF Len(p) <= Len(s) /\ SubSeq(s, 1, Len(p)) = p THEN SliceFrom(s, Len(p)) ELSE s

\* strings.HasSuffix
HasSuffix(s, suffix) ==
  Len(suffix) <= Len(s) /\ SubSeq(s, Len(s) - Len(suffix) + 1, Len(s)) = suffix

RECURSIVE Repeat(_, _)
Repeat(c, n) == IF n <= 0 THEN <<>> ELSE <<c>> \o Repeat(c, n - 1)

RECURSIVE DecDigits(_)
\* The decimal digits of n >= 0, without padding.
DecDigits(n) ==
  IF n < 10 THEN <<DigitChars[n + 1]>>
  ELSE DecDigits(n \div 10) \o <<DigitChars[(n % 10) + 1]>>

\* fmt's %0<width>d of n >= 0: the width is a minimum, never a truncation.
PadInt(n, width) ==
  LET d == DecDigits(n) IN Repeat("0", width - Len(d)) \o d

\* fmt's %-<width>s: padded with spaces on the right, never truncated.
PadRight(s, width) == s \o Repeat(" ", width - Len(s))

RECURSIVE DecValueUpTo(_, _)
\* The number the first n digits of ds denote.
DecValueUpTo(ds, n) ==
  IF n = 0 THEN 0 ELSE 10 * DecValueUpTo(ds, n - 1) + DigitVal(ds[n])

\* The number a sequence of digits denotes.
DecValue(ds) == DecValueUpTo(ds, Len(ds))

\* sort.Strings as an insertion of x in an ascending list.
RECURSIVE InsertSorted(_, _)
InsertSorted(x, s) ==
  IF s = <<>> THEN <<x>>
  ELSE IF StrLess(s[1], x) THEN <<s[1]>> \o InsertSorted(x, Tail(s))
       ELSE <<x>> \o s

(***************************************************************************)
(* Timestamps: parseLineTime and the time package calls it makes           *)
(***************************************************************************)

\* time.Time{}: the zero time, January 1 of year 1, 00:00:00.
emptyTime == [year |-> 1, hour |-> 0, minute |-> 0, second |-> 0, nano |-> 0]

\* Whether \d{2}:\d{2}:\d{2} followed, when frac > 0, by \. and frac digits
\* matches the line at position p (1-based).
MatchesAt(line, p, frac) ==
  LET n == IF frac = 0 THEN 8 ELSE 9 + frac
  IN  /\ p + n - 1 <= Len(line)
      /\ \A k \in {0, 1, 3, 4, 6, 7} : IsDigit(line[p + k])
      /\ line[p + 2] = ":"
      /\ line[p + 5] = ":"
      /\ frac > 0 => /\ line[p + 8] = "."
                     /\ \A k \in 9..(8 + frac) : IsDigit(line[p + k])

\* regexp.FindStringSubmatch(line)[1] for the pattern with frac fraction
\* digits: the leftmost match, or <<>> for a nil match.
FindStringSubmatch(line, frac) ==
  LET n == IF frac = 0 THEN 8 ELSE 9 + frac
      leftmost(at) ==
        IF at = {} THEN <<>>
        ELSE LET p == CHOOSE q \in at : \A r \in at : q <= r
             IN  SubSeq(line, p, p + n - 1)
  IN  CHOOSE m \in {leftmost(at) : at \in {{p \in 1..Len(line) : MatchesAt(line, p, frac)}}} : TRUE

\* time.Parse of a matched substring under the layout of the same shape: each
\* field is range-checked, and an out-of-range field gives (Time{}, error).
\* The fraction digits present are scaled to nanoseconds.
TimeParse(value) ==
  LET hour == DecValue(SubSeq(value, 1, 2))
      minute == DecValue(SubSeq(value, 4, 5))
      second == DecValue(SubSeq(value, 7, 8))
      fracDigits == SubSeq(value, 10, Len(value))
      nano == DecValue(fracDigits \o Repeat("0", 9 - Len(fracDigits)))
  IN  IF hour >= 24 \/ minute >= 60 \/ second >= 60
      THEN [time |-> emptyTime, err |-> TRUE]
      ELSE [time |-> [year |-> 0, hour |-> hour, minute |-> minute,
                      second |-> second, nano |-> nano],
            err |-> FALSE]

\* The patterns in the order parseLineTime tries them, as their numbers of
\* fraction digits: timeNanoPattern, timeMicroPattern, timeMilliPattern,
\* timePattern.
PatternOrder == <<9, 6, 3, 0>>

\* The matches of the four patterns on the line, in the order of PatternOrder.
Matches(line) == [k \in 1..Len(PatternOrder) |-> FindStringSubmatch(line, PatternOrder[k])]

\* Whether some pattern matches the line.
Recognizable(line) == \E k \in 1..Len(PatternOrder) : Matches(line)[k] # <<>>

\* The parse of the first match there is, or the value for no match.
FirstParsed(m, noMatch) ==
  LET hits == {k \in DOMAIN m : m[k] # <<>>}
  IN  IF hits = {} THEN [time |-> noMatch, err |-> FALSE]
      ELSE TimeParse(m[CHOOSE a \in hits : \A b \in hits : a <= b])

\* A mutant of parseLineTime: a line no pattern matches gets the zero time
\* instead of the fallback.
parseLineTimeNoFallback(line, defaultValue) ==
  CHOOSE r \in {FirstParsed(m, emptyTime) : m \in {Matches(line)}} : TRUE

\* parseLineTime: the parse of the first pattern that matches, or the fallback.
\* (The matches are bound once, as a value.)
parseLineTime(line, defaultValue) ==
  CHOOSE r \in {FirstParsed(m, defaultValue) : m \in {Matches(line)}} : TRUE

(***************************************************************************)
(* The composed line                                                       *)
(***************************************************************************)

ShortNameMax == 60
ShortNameHead == 17
ShortNameTail == 40

\* A mutant of shortName: a name of exactly 60 characters is shortened too.
shortNameAtMax(name) ==
  IF Len(name) >= ShortNameMax
  THEN SubSeq(name, 1, ShortNameHead) \o <<".", ".", ".">>
         \o SliceFrom(name, Len(name) - ShortNameTail)
  ELSE name

\* shortName
shortName(name) ==
  IF Len(name) > ShortNameMax
  THEN SubSeq(name, 1, ShortNameHead) \o <<".", ".", ".">>
         \o SliceFrom(name, Len(name) - ShortNameTail)
  ELSE name

IndexDigits == 4
RowDigits == 8
TagWidth == 62

\* A mutant of SortKey: the row number stands before the source index, as in
\* the key of combiner.go.
SortKeyRowFirst(dayNumber, lineTime, i, rowNumber) ==
  DecDigits(dayNumber) \o <<":">> \o PadInt(lineTime.hour, 2) \o <<":">>
    \o PadInt(lineTime.minute, 2) \o <<":">> \o PadInt(lineTime.second, 2)
    \o <<".">> \o PadInt(lineTime.nano, 9) \o <<":">> \o PadInt(rowNumber, RowDigits)
    \o <<":">> \o PadInt(i, IndexDigits)

\* A mutant of SortKey: the minute and the hour are passed in each other's place.
SortKeyMinuteFirst(dayNumber, lineTime, i, rowNumber) ==
  DecDigits(dayNumber) \o <<":">> \o PadInt(lineTime.minute, 2) \o <<":">>
    \o PadInt(lineTime.hour, 2) \o <<":">> \o PadInt(lineTime.second, 2)
    \o <<".">> \o PadInt(lineTime.nano, 9) \o <<":">> \o PadInt(i, IndexDigits)
    \o <<":">> \o PadInt(rowNumber, RowDigits)

\* The sort key: "%d:%02d:%02d:%02d.%09d:%04d:%08d".
SortKey(dayNumber, lineTime, i, rowNumber) ==
  DecDigits(dayNumber) \o <<":">> \o PadInt(lineTime.hour, 2) \o <<":">>
    \o PadInt(lineTime.minute, 2) \o <<":">> \o PadInt(lineTime.second, 2)
    \o <<".">> \o PadInt(lineTime.nano, 9) \o <<":">> \o PadInt(i, IndexDigits)
    \o <<":">> \o PadInt(rowNumber, RowDigits)

\* The display time: "%02d:%02d:%02d.%09d".
DisplayTime(lineTime) ==
  PadInt(lineTime.hour, 2) \o <<":">> \o PadInt(lineTime.minute, 2) \o <<":">>
    \o PadInt(lineTime.second, 2) \o <<".">> \o PadInt(lineTime.nano, 9)

\* What follows the sort key and its separator in a composed line.
Visible(lineTime, short, line) ==
  DisplayTime(lineTime) \o <<" ">> \o PadRight(<<"[">> \o short \o <<"]">>, TagWidth)
    \o <<" ">> \o line

\* The composed line: "%s %s %-62s %s".
ComposeLine(sortKey, lineTime, short, line) ==
  sortKey \o <<" ">> \o Visible(lineTime, short, line)

(***************************************************************************)
(* The program state                                                       *)
(***************************************************************************)

VARIABLES
  nObjects,       \* len(objectNames)
  prefix,         \* the common prefix removed from the names
  stdoutOk,       \* whether os.Stdout takes what is written to it
  files,          \* what getReader and the scanner deliver, per source index
  worker,         \* the goroutine of each source index
  resultChan,     \* the batches buffered in resultChan
  mainPc,         \* where main is
  received,       \* main's loop counter i
  combinedLines,  \* main's combinedLines
  arrived,        \* history: combinedLines as collected, before sort.Strings
  stdout          \* the lines written to the output

vars == <<nObjects, prefix, stdoutOk, files, worker, resultChan, mainPc, received,
          combinedLines, arrived, stdout>>

\* make(chan []string, 16)
ChanCap == 16

\* line[35:]
StripLen == 35

\* The process is gone: main returned, log.Fatal exited, or a goroutine panicked.
Exited == {"exit0", "exit1", "crashed"}

SendErrPcs == {"sendOpenErr", "sendParseErr", "sendScanErr"}

\* A goroutine at its first statement.
NewWorker ==
  [pc |-> "open", readerOk |-> TRUE, lineTime |-> emptyTime, firstTime |-> emptyTime,
   dayNumber |-> 0, rowNumber |-> 0, lines |-> <<>>,
   \* history: the errors met, the sends on errorChan that were received, and
   \* per composed line the values it was made of
   failures |-> {}, sent |-> 0, tags |-> <<>>]

\* A mutant of DayNumber: the flag follows the current line, as the commented
\* code of combiner.go did, instead of staying set.
DayNumberNotSticky(dayNumber, lineTime, firstTime) ==
  IF lineTime.hour < firstTime.hour - 1 THEN 1 ELSE 0

\* A mutant of DayNumber: any earlier hour counts as a rollover.
DayNumberAnyEarlier(dayNumber, lineTime, firstTime) ==
  IF lineTime.hour < firstTime.hour THEN 1 ELSE dayNumber

\* if lineTime.Hour() < firstTime.Hour()-1 { dayNumber = 1 }
DayNumber(dayNumber, lineTime, firstTime) ==
  IF lineTime.hour < firstTime.hour - 1 THEN 1 ELSE dayNumber

\* A mutant of FirstTime: a firstTime of 00:00:00 counts as not set.
FirstTimeMidnightUnset(firstTime, lineTime) ==
  IF firstTime.hour = 0 /\ firstTime.minute = 0 /\ firstTime.second = 0 /\ firstTime.nano = 0
  THEN lineTime ELSE firstTime

\* if firstTime == emptyTime { firstTime = lineTime }
FirstTime(firstTime, lineTime) ==
  IF firstTime = emptyTime THEN lineTime ELSE firstTime

\* The loop body after parseLineTime, for line number w.rowNumber whose time
\* is w.lineTime: firstTime, dayNumber, and the composed line appended.
TagLine(w, i, name, line) ==
  LET first == FirstTime(w.firstTime, w.lineTime)
      day == DayNumber(w.dayNumber, w.lineTime, first)
      tagged(key, short) ==
        [w EXCEPT !.pc = "scan", !.firstTime = first, !.dayNumber = day,
                  !.lines = Append(@, ComposeLine(key, w.lineTime, short, line)),
                  !.tags = Append(@, [day |-> day, time |-> w.lineTime, index |-> i,
                                      row |-> w.rowNumber, key |-> key,
                                      short |-> short, raw |-> line])]
  IN  CHOOSE next \in {tagged(key, short) :
                         key \in {SortKey(day, w.lineTime, i, w.rowNumber)},
                         short \in {shortName(TrimPrefix(name, prefix))}} : TRUE

\* scanner.Scan() returned false: scanner.Err() is sent when set, then the batch.
AfterLastLine(f, w) ==
  IF f.scanFails THEN [w EXCEPT !.pc = "sendScanErr", !.failures = @ \cup {"scan"}]
  ELSE [w EXCEPT !.pc = "sendResult"]

\* combinedLines = append(combinedLines, lines...)
Collect(combined, lines) == combined \o lines

RECURSIVE SortStringsUpTo(_, _)
\* The first n strings of s in ascending order.
SortStringsUpTo(s, n) ==
  IF n = 0 THEN <<>>
  ELSE CHOOSE r \in {InsertSorted(s[n], rest) : rest \in {SortStringsUpTo(s, n - 1)}} : TRUE

\* A mutant of SortStrings: the lines stay in the order they were collected.
SortStringsNone(s) == s

\* sort.Strings(combinedLines)
SortStrings(s) == SortStringsUpTo(s, Len(s))

\* A mutant of OnError: the error is logged and the loop goes on.
OnErrorLogOnly(pc) == pc

\* case err := <-errorChan: log.Fatal(err)
OnError(pc) == "fatal"

\* The lines written: line[35:] of each sorted line.
Written(sorted) == [k \in 1..Len(sorted) |-> SliceFrom(sorted[k], StripLen)]

\* bufio.NewWriter(os.Stdout): a buffer of the default size, 4096 bytes
BufSize == 4096

RECURSIVE BytesUpTo(_, _)
BytesUpTo(out, n) == IF n = 0 THEN 0 ELSE BytesUpTo(out, n - 1) + Len(out[n]) + 1

\* The bytes handed to bw.WriteString: every line and its "\n".
Bytes(out) == BytesUpTo(out, Len(out))

\* The write loop over the lines `out` and the deferred bw.Flush().  The lines
\* go to the buffer; the buffer is written to os.Stdout when a line does not
\* fit in what is left of it, and by Flush when main returns.  On an os.Stdout
\* that takes no write, WriteString returns the error once more than BufSize
\* bytes were handed over, and log.Fatalf ends the run; with fewer bytes only
\* Flush meets the error, nobody reads it, and main returns as after a
\* successful write.
WriteAll(out) ==
  IF stdoutOk THEN [pc |-> "exit0", stdout |-> out]
  ELSE IF Bytes(out) > BufSize THEN [pc |-> "fatal", stdout |-> <<>>]
  ELSE [pc |-> "exit0", stdout |-> <<>>]

(***************************************************************************)
(* The goroutine of source i                                               *)
(***************************************************************************)

Running == mainPc \notin Exited

\* reader, err := getReader(ctx, name)
WorkerOpen(i) ==
  /\ Running
  /\ i \in DOMAIN worker
  /\ worker[i].pc = "open"
  /\ worker' = [worker EXCEPT ![i] =
       IF files[i].openFails
       THEN [@ EXCEPT !.pc = "sendOpenErr", !.readerOk = FALSE, !.failures = @ \cup {"open"}]
       ELSE [@ EXCEPT !.pc = "scan"]]
  /\ UNCHANGED <<nObjects, prefix, stdoutOk, files, resultChan, mainPc, received, combinedLines, arrived, stdout>>

\* One turn of for scanner.Scan() on a reader that opened: the next line is
\* parsed and, unless the parse failed, tagged; after the last line the loop ends.
ScanStep(w, i, f) ==
  IF w.rowNumber < Len(f.content)
  THEN LET line == f.content[w.rowNumber + 1]
           read(r) == [w EXCEPT !.rowNumber = @ + 1, !.lineTime = r.time]
           step(r) ==
             IF r.err
             THEN [read(r) EXCEPT !.pc = "sendParseErr", !.failures = @ \cup {"parse"}]
             ELSE TagLine(read(r), i, f.name, line)
       IN  CHOOSE next \in {step(r) : r \in {parseLineTime(line, w.lineTime)}} : TRUE
  ELSE AfterLastLine(f, w)

WorkerScan(i) ==
  /\ Running
  /\ i \in DOMAIN worker
  /\ worker[i].pc = "scan"
  /\ worker[i].readerOk
  /\ worker' = [worker EXCEPT ![i] = ScanStep(@, i, files[i])]
  /\ UNCHANGED <<nObjects, prefix, stdoutOk, files, resultChan, mainPc, received, combinedLines, arrived, stdout>>

\* scanner.Scan() on the reader of a failed open, when its Read returns an
\* error: the loop ends with scanner.Err() set.
WorkerScanInvalid(i) ==
  /\ Running
  /\ i \in DOMAIN worker
  /\ worker[i].pc = "scan"
  /\ ~worker[i].readerOk
  /\ worker' = [worker EXCEPT ![i] =
       [@ EXCEPT !.pc = "sendScanErr", !.failures = @ \cup {"scan"}]]
  /\ UNCHANGED <<nObjects, prefix, stdoutOk, files, resultChan, mainPc, received, combinedLines, arrived, stdout>>

\* scanner.Scan() on the reader of a failed open, when its Read dereferences
\* nil: the panic ends the process.
WorkerPanic(i) ==
  /\ Running
  /\ i \in DOMAIN worker
  /\ worker[i].pc = "scan"
  /\ ~worker[i].readerOk
  /\ mainPc' = "crashed"
  /\ UNCHANGED <<nObjects, prefix, stdoutOk, files, worker, resultChan, received, combinedLines, arrived, stdout>>

\* The loop body after a parse error was sent: the line is tagged with the
\* time parseLineTime returned beside the error.
WorkerTag(i) ==
  /\ Running
  /\ i \in DOMAIN worker
  /\ worker[i].pc = "tag"
  /\ worker' = [worker EXCEPT ![i] =
       TagLine(@, i, files[i].name, files[i].content[@.rowNumber])]
  /\ UNCHANGED <<nObjects, prefix, stdoutOk, files, resultChan, mainPc, received, combinedLines, arrived, stdout>>

\* resultChan <- lines
WorkerSendResult(i) ==
  /\ Running
  /\ i \in DOMAIN worker
  /\ worker[i].pc = "sendResult"
  /\ Len(resultChan) < ChanCap
  /\ resultChan' = Append(resultChan, worker[i].lines)
  /\ worker' = [worker EXCEPT ![i].pc = "done"]
  /\ UNCHANGED <<nObjects, prefix, stdoutOk, files, mainPc, received, combinedLines, arrived, stdout>>

(***************************************************************************)
(* main                                                                    *)
(***************************************************************************)

\* case lines := <-resultChan
MainRecvResult ==
  /\ mainPc = "collect"
  /\ received < nObjects
  /\ resultChan # <<>>
  /\ combinedLines' = Collect(combinedLines, Head(resultChan))
  /\ resultChan' = Tail(resultChan)
  /\ received' = received + 1
  /\ arrived' = Collect(arrived, Head(resultChan))
  /\ UNCHANGED <<nObjects, prefix, stdoutOk, files, worker, mainPc, stdout>>

\* Where a goroutine goes on once its send on errorChan was received.
AfterSendErr(w) ==
  CASE w.pc = "sendOpenErr" -> [w EXCEPT !.pc = "scan", !.sent = @ + 1]
    [] w.pc = "sendParseErr" -> [w EXCEPT !.pc = "tag", !.sent = @ + 1]
    [] w.pc = "sendScanErr" -> [w EXCEPT !.pc = "sendResult", !.sent = @ + 1]

\* case err := <-errorChan: the unbuffered channel hands over the error of a
\* goroutine blocked in its send, which then goes on.
MainRecvError(i) ==
  /\ mainPc = "collect"
  /\ received < nObjects
  /\ i \in DOMAIN worker
  /\ worker[i].pc \in SendErrPcs
  /\ mainPc' = OnError(mainPc)
  \* i++ runs only if the case returns, which log.Fatal never does
  /\ received' = IF OnError(mainPc) = "collect" THEN received + 1 ELSE received
  /\ worker' = [worker EXCEPT ![i] = AfterSendErr(@)]
  /\ UNCHANGED <<nObjects, prefix, stdoutOk, files, resultChan, combinedLines, arrived, stdout>>

\* After the loop: sort.Strings, then every line handed to the buffered writer
\* without its first 35 characters; main returns through the deferred Flush,
\* or log.Fatalf ends it when a write failed.
MainFinish ==
  /\ mainPc = "collect"
  /\ received = nObjects
  /\ \E sorted \in {SortStrings(combinedLines)} :
       /\ combinedLines' = sorted
       /\ \E end \in {WriteAll(Written(sorted))} :
            /\ stdout' = end.stdout
            /\ mainPc' = end.pc
  /\ UNCHANGED <<nObjects, prefix, stdoutOk, files, worker, resultChan, received, arrived>>

\* log.Fatal: the message is printed and os.Exit(1) ends the process.
MainExit ==
  /\ mainPc = "fatal"
  /\ mainPc' = "exit1"
  /\ UNCHANGED <<nObjects, prefix, stdoutOk, files, worker, resultChan, received, combinedLines, arrived, stdout>>

Next ==
  \/ \E i \in DOMAIN worker : WorkerOpen(i)
  \/ \E i \in DOMAIN worker : WorkerScan(i)
  \/ \E i \in DOMAIN worker : WorkerScanInvalid(i)
  \/ \E i \in DOMAIN worker : WorkerPanic(i)
  \/ \E i \in DOMAIN worker : WorkerTag(i)
  \/ \E i \in DOMAIN worker : WorkerSendResult(i)
  \/ MainRecvResult
  \/ \E i \in DOMAIN worker : MainRecvError(i)
  \/ MainFinish
  \/ MainExit

(***************************************************************************)
(* Inputs and initial states                                               *)
(***************************************************************************)

\* The most sources started together, and the most lines of a source scanned
\* over every text.
MaxSources == 2
MaxLines == 3

\* "10:00:00 a": a time without a fraction
LineTen == <<"1", "0", ":", "0", "0", ":", "0", "0", " ", "a">>
\* "x": no time
LineNone == <<"x">>
\* "25:61:61": matches timePattern, and no time of day
LineBad == <<"2", "5", ":", "6", "1", ":", "6", "1">>
\* "23:00:00"
Line23 == <<"2", "3", ":", "0", "0", ":", "0", "0">>
\* "22:59:59.5 22:10:34.002031": a time without a usable fraction, then microseconds
Line22 == <<"2", "2", ":", "5", "9", ":", "5", "9", ".", "5", " ",
            "2", "2", ":", "1", "0", ":", "3", "4", ".", "0", "0", "2", "0", "3", "1">>
\* "01:00:00.250"
Line01 == <<"0", "1", ":", "0", "0", ":", "0", "0", ".", "2", "5", "0">>
\* "t=05:59:37.283814575Z": nanoseconds
LineNano == <<"t", "=", "0", "5", ":", "5", "9", ":", "3", "7", ".",
              "2", "8", "3", "8", "1", "4", "5", "7", "5", "Z">>
\* "00:00:00": midnight, which is not the zero time
Line00 == <<"0", "0", ":", "0", "0", ":", "0", "0">>
\* "xx...x": a line of as many bytes as the buffer of the writer holds
LineLong == [k \in 1..BufSize |-> "x"]

\* The directory the names are relative to: "/d".
Prefixes == {<<"/", "d">>}

\* The name of the k-th started source: "/d/a.log", "/d/b.log", ...
NameOf(k) == <<"/", "d", "/", Ascii[66 + k], ".", "l", "o", "g">>

\* The names appended to objectNames:
\* strings.HasSuffix(path, ".log") || strings.HasSuffix(path, "build-log.txt")
Listed(name) ==
  \/ HasSuffix(name, <<".", "l", "o", "g">>)
  \/ HasSuffix(name, <<"b", "u", "i", "l", "d", "-", "l", "o", "g", ".", "t", "x", "t">>)

File(content, openFails, scanFails) ==
  [content |-> content, openFails |-> openFails, scanFails |-> scanFails]

\* The sources the goroutines run together on: with and without a time, empty,
\* failing to open, failing in the scan after a line, and with a line whose
\* time does not parse.
Catalog ==
  { File(<<LineTen>>, FALSE, FALSE),
    File(<<LineNone>>, FALSE, FALSE),
    File(<<>>, FALSE, FALSE),
    File(<<>>, TRUE, FALSE),
    File(<<LineTen>>, FALSE, TRUE),
    File(<<LineBad>>, FALSE, FALSE) }

\* The lines of the sources scanned alone.
ScanLines == {LineTen, LineNone, LineBad, Line23, Line22, Line01, Line00}

RECURSIVE SeqsUpTo(_, _)
\* The sequences over S of length at most n.
SeqsUpTo(S, n) ==
  IF n = 0 THEN {<<>>}
  ELSE LET shorter == SeqsUpTo(S, n - 1)
       IN  shorter \cup {Append(q, x) : q \in {r \in shorter : Len(r) = n - 1}, x \in S}

ScanCatalog ==
  {File(c, FALSE, e) : c \in SeqsUpTo(ScanLines, MaxLines), e \in BOOLEAN}
    \cup {File(<<>>, TRUE, FALSE)}

\* The first index whose sort key field is wider than its format: 10^IndexDigits.
RECURSIVE Pow10(_)
Pow10(n) == IF n = 0 THEN 1 ELSE 10 * Pow10(n - 1)

\* The state in which the sources before `base` were empty files whose goroutines
\* have finished (inChan of their batches still buffered, the others received)
\* and the k sources from `base` on, fs[1] .. fs[k], have just been started,
\* with an os.Stdout that takes every write (ok) or none.
InitOn(ok, base, inChan, k, fs) ==
  /\ nObjects = base + k
  /\ prefix \in Prefixes
  /\ stdoutOk = ok
  /\ files = [i \in base..(base + k - 1) |->
                [name |-> NameOf(i - base), content |-> fs[i - base + 1].content,
                 openFails |-> fs[i - base + 1].openFails,
                 scanFails |-> fs[i - base + 1].scanFails]]
  /\ \A i \in DOMAIN files : Listed(files[i].name)
  /\ worker = [i \in base..(base + k - 1) |-> NewWorker]
  /\ resultChan = [j \in 1..inChan |-> <<>>]
  /\ mainPc = "collect"
  /\ received = base - inChan
  /\ combinedLines = <<>>
  /\ arrived = <<>>
  /\ stdout = <<>>

\* The same on an os.Stdout that takes every write.
InitFrom(base, inChan, k, fs) == InitOn(TRUE, base, inChan, k, fs)

\* The sources of the runs whose os.Stdout takes no write: a line, a line that
\* alone overflows the buffer of the writer, no line, and a scan that fails.
MuteCatalog ==
  { File(<<LineTen>>, FALSE, FALSE),
    File(<<LineLong>>, FALSE, FALSE),
    File(<<>>, FALSE, FALSE),
    File(<<LineTen>>, FALSE, TRUE) }

\* A fresh run whose os.Stdout takes no write (closed, or on a full device):
\* of one source, or of two sources of three lines together.
InitMute ==
  \/ \E f \in MuteCatalog : InitOn(FALSE, 0, 0, 1, <<f>>)
  \/ InitOn(FALSE, 0, 0, 2, <<File(<<LineTen>>, FALSE, FALSE),
                              File(<<LineTen, LineNone>>, FALSE, FALSE)>>)

\* The sources started behind a full resultChan: a line each, one failing in
\* the scan after it.
FullCatalog ==
  { File(<<LineTen>>, FALSE, FALSE),
    File(<<LineTen>>, FALSE, TRUE) }

\* The sources started at the widest index: a line each, with and without a time.
WideCatalog ==
  { File(<<LineTen>>, FALSE, FALSE),
    File(<<LineNone>>, FALSE, FALSE) }

\* A fresh run of up to MaxSources sources.
InitFresh ==
  \E k \in 0..MaxSources : \E fs \in [1..k -> Catalog] : InitFrom(0, 0, k, fs)

\* A run of more sources than resultChan holds: the first 16 were empty and
\* their batches fill resultChan when the others start.
InitFull ==
  \E k \in 1..MaxSources : \E fs \in [1..k -> FullCatalog] :
    InitFrom(ChanCap, ChanCap, k, fs)

\* A run of more sources than the key's index field counts: the first 9999
\* were empty and their batches are received when the others start, the first
\* of them at the last index of four digits.
InitWide ==
  \E k \in 1..MaxSources : \E fs \in [1..k -> WideCatalog] :
    InitFrom(Pow10(IndexDigits) - 1, 0, k, fs)

Init == InitFresh \/ InitFull \/ InitWide \/ InitMute

Spec == Init /\ [][Next]_vars

\* The lines of a source scanned next to another source.
PairLines == {LineNone, Line01}

\* One source scanned from a fresh start, over every text of up to MaxLines
\* lines; a source of a line of each precision; or a source of lines with and
\* without a time scanned next to a source whose only line reports hour 23.
InitScan ==
  \/ \E f \in ScanCatalog : InitFrom(0, 0, 1, <<f>>)
  \/ InitFrom(0, 0, 1, <<File(<<LineNano, Line22, Line01, Line23>>, FALSE, FALSE)>>)
  \/ \E c \in SeqsUpTo(PairLines, MaxLines) :
       InitFrom(0, 0, 2, <<File(<<Line23>>, FALSE, FALSE), File(c, FALSE, FALSE)>>)

SpecScan == InitScan /\ [][Next]_vars

\* The sources of the runs followed to their end: empty, with a line, failing
\* to open, failing in the scan, and with a line whose time does not parse.
EndCatalog ==
  { File(<<>>, FALSE, FALSE),
    File(<<LineTen>>, FALSE, FALSE),
    File(<<>>, TRUE, FALSE),
    File(<<>>, FALSE, TRUE),
    File(<<LineBad>>, FALSE, FALSE) }

EndFullCatalog ==
  { File(<<LineTen>>, FALSE, FALSE),
    File(<<>>, FALSE, TRUE) }

\* A fresh run of up to MaxSources sources, a run of up to MaxSources
\* sources more than resultChan holds, or a run whose os.Stdout takes no
\* write.
InitEnd ==
  \/ \E k \in 0..MaxSources : \E fs \in [1..k -> EndCatalog] : InitFrom(0, 0, k, fs)
  \/ \E k \in 1..MaxSources : \E fs \in [1..k -> EndFullCatalog] :
       InitFrom(ChanCap, ChanCap, k, fs)
  \/ InitMute

\* The scheduler never leaves the process idle while a goroutine or main can
\* take a step.
SpecFair == InitEnd /\ [][Next]_vars /\ WF_vars(Next)

(***************************************************************************)
(* What the claims speak of                                                *)
(***************************************************************************)

\* The composed lines so far, as the values each was made of.
TagsOf(i) == {worker[i].tags[k] : k \in 1..Len(worker[i].tags)}

AllTags == UNION {TagsOf(i) : i \in DOMAIN worker}

\* (dayNumber, hour, minute, second, nanosecond, sourceIndex, rowNumber)
TupleOf(t) ==
  <<t.day, t.time.hour, t.time.minute, t.time.second, t.time.nano, t.index, t.row>>

\* Field by field comparison of two tuples of the same length.
TupleLess(a, b) ==
  \E k \in 1..Len(a) : a[k] < b[k] /\ \A j \in 1..(k - 1) : a[j] = b[j]

\* The values a composed line was made of.
TagOfLine(l) == CHOOSE t \in AllTags : ComposeLine(t.key, t.time, t.short, t.raw) = l

RECURSIVE BatchFrom(_, _, _)
\* The batch of a source that opens: the scan loop run from w to its end.
BatchFrom(w, i, f) ==
  IF w.pc = "scan" /\ w.rowNumber < Len(f.content)
  THEN BatchFrom(ScanStep(w, i, f), i, f)
  ELSE w.lines

RECURSIVE BatchesFrom(_, _)
\* The batches of the started sources lo .. hi, one after the other in index order.
BatchesFrom(lo, hi) ==
  IF lo > hi THEN <<>>
  ELSE BatchFrom([NewWorker EXCEPT !.pc = "scan"], lo, files[lo]) \o BatchesFrom(lo + 1, hi)

\* Every composed line of the run, in index order, computed from the inputs alone.
InputLines ==
  IF DOMAIN files = {} THEN <<>>
  ELSE LET lo == CHOOSE i \in DOMAIN files : \A j \in DOMAIN files : i <= j
       IN  BatchesFrom(lo, lo + Cardinality(DOMAIN files) - 1)

\* Whether a source makes its goroutine send an error.
InputFails(f) ==
  \/ f.openFails
  \/ f.scanFails
  \/ \E k \in 1..Len(f.content) : parseLineTime(f.content[k], emptyTime).err

SomeInputFails == \E i \in DOMAIN files : InputFails(files[i])

\* How often x occurs in the sequence s.
Count(s, x) == Cardinality({k \in 1..Len(s) : s[k] = x})

EndsWith(s, suffix) ==
  Len(suffix) <= Len(s) /\ SubSeq(s, Len(s) - Len(suffix) + 1, Len(s)) = suffix

(***************************************************************************)
(* The claims                                                              *)
(***************************************************************************)

\* C1: byte-wise comparison of the sort keys of two composed lines agrees with
\* the field by field comparison of (dayNumber, hour, minute, second,
\* nanosecond, sourceIndex, rowNumber), no two lines share a key, and the
\* sorted lines are in that tuple order.  (Fails on the code: a source index
\* of 10000 does not fit %04d.)
C1_SortKeyOrderIsTupleOrder ==
  /\ \A a \in AllTags : \A b \in AllTags \ {a} :
       /\ a.key # b.key
       /\ StrLess(a.key, b.key) <=> TupleLess(TupleOf(a), TupleOf(b))
  /\ mainPc = "exit0" =>
       \A p \in 1..(Len(combinedLines) - 1) :
         TupleLess(TupleOf(TagOfLine(combinedLines[p])),
                   TupleOf(TagOfLine(combinedLines[p + 1])))

\* C2: once a goroutine has met an open error or a scan error, main never
\* leaves its loop by collecting nObjects batches, nothing is ever written,
\* and the process does not end in success.
C2_FailureNeverWrites ==
  (\E i \in DOMAIN worker : worker[i].failures \cap {"open", "scan"} # {}) =>
     /\ stdout = <<>>
     /\ mainPc # "exit0"
     /\ ~(mainPc = "collect" /\ received = nObjects)

\* C2's case: the run failed on a scan error while the batch of another
\* source, lines included, was buffered in resultChan.
C2_Witness ==
  /\ mainPc = "exit1"
  /\ \E i \in DOMAIN worker : "scan" \in worker[i].failures
  /\ \E k \in 1..Len(resultChan) : resultChan[k] # <<>>
  /\ stdout = <<>>

\* C3: the output of a run that ends in success is a function of the sources
\* and of whether os.Stdout takes the writes, in whatever order the goroutines
\* ran and their batches arrived: the composed lines of all sources, sorted and
\* stripped, or nothing on an os.Stdout that takes no write.
C3_OutputDeterminedByInputs ==
  mainPc = "exit0" =>
    stdout = IF stdoutOk THEN Written(SortStrings(InputLines)) ELSE <<>>

\* C3's case: a successful run whose batches arrived in another order than the
\* index order of their sources.
C3_Witness ==
  /\ mainPc = "exit0"
  /\ Len(stdout) >= 2
  /\ arrived # InputLines

\* C4: parseLineTime never returns an error, so no goroutine ever sends a
\* parse error.  (Fails on the code: time.Parse rejects 25:61:61.)
C4_ParseLineTimeNeverFails ==
  \A i \in DOMAIN worker :
    /\ "parse" \notin worker[i].failures
    /\ worker[i].pc \notin {"sendParseErr", "tag"}

\* C5: every run ends; when some source fails main receives an error and the
\* run ends in failure; when none fails it ends in success with nObjects
\* batches received, every goroutine done, nothing left in resultChan and
\* every line written.  (Fails on the code: on an os.Stdout that takes no
\* write the run of sources that all succeed ends with nothing written, in
\* success when the lines fit the buffer of the writer and in failure when
\* they do not.)
C5_EveryRunTerminates ==
  /\ <>(mainPc \in Exited)
  /\ SomeInputFails => <>(mainPc = "fatal")
  /\ [](mainPc \in Exited =>
          IF SomeInputFails
          THEN mainPc \in {"exit1", "crashed"} /\ stdout = <<>>
          ELSE /\ mainPc = "exit0"
               /\ received = nObjects
               /\ resultChan = <<>>
               /\ \A i \in DOMAIN worker : worker[i].pc = "done"
               /\ Len(stdout) = Len(InputLines))

\* C5's case: no source failed, main received every batch and returned in
\* success, and the line of the source was not written.
C5_Witness ==
  /\ ~SomeInputFails
  /\ mainPc = "exit0"
  /\ received = nObjects
  /\ InputLines # <<>>
  /\ stdout = <<>>

\* C6: the output of a successful run holds one line per line of each source:
\* as many lines as the sources have, each composed line without its first 35
\* characters as often as it was composed, and each still ending with the
\* text of its input line.  (Fails on the code: the error of the deferred
\* bw.Flush() is dropped, so a run whose os.Stdout takes no write ends in
\* success with no line written.)
C6_OneOutputLinePerInputLine ==
  mainPc = "exit0" =>
    LET composed == UNION {{<<i, k>> : k \in 1..Len(worker[i].lines)} : i \in DOMAIN worker}
        out(c) == SliceFrom(worker[c[1]].lines[c[2]], StripLen)
    IN  /\ \A i \in DOMAIN worker : Len(worker[i].lines) = Len(files[i].content)
        /\ Len(stdout) = Cardinality(composed)
        /\ \A c \in composed :
             /\ Count(stdout, out(c)) = Cardinality({d \in composed : out(d) = out(c)})
             /\ EndsWith(out(c), files[c[1]].content[c[2]])

\* C6's case: a successful run of two sources with a line each, of which no
\* line is in the output.
C6_Witness ==
  /\ mainPc = "exit0"
  /\ Cardinality({i \in DOMAIN worker : worker[i].lines # <<>>}) >= 2
  /\ Len(combinedLines) >= 2
  /\ Len(stdout) = 0

\* The tags of source i whose line is matched by some pattern, before row r.
EarlierRecognizable(i, r) ==
  {q \in 1..(r - 1) : Recognizable(worker[i].tags[q].raw)}

\* C7: a line no pattern matches is tagged with the time its nearest earlier
\* line of the same source with a matched time was tagged with, or with the
\* zero time when the source has no such earlier line, whatever the other
\* sources hold.
C7_FallbackIsNearestEarlierTime ==
  \A i \in DOMAIN worker : \A r \in 1..Len(worker[i].tags) :
    ~Recognizable(worker[i].tags[r].raw) =>
      worker[i].tags[r].time =
        IF EarlierRecognizable(i, r) = {} THEN emptyTime
        ELSE LET near == CHOOSE q \in EarlierRecognizable(i, r) :
                           \A o \in EarlierRecognizable(i, r) : o <= q
             IN  worker[i].tags[near].time

\* C7's case: a source whose lines without a time were tagged with the zero
\* time before its first line with a time and with that line's time after it,
\* while another source had tagged a line of another time.
C7_Witness ==
  \E i \in DOMAIN worker : \E j \in DOMAIN worker \ {i} :
    /\ Len(worker[i].tags) >= 3
    /\ ~Recognizable(worker[i].tags[1].raw) /\ worker[i].tags[1].time = emptyTime
    /\ Recognizable(worker[i].tags[2].raw)
    /\ ~Recognizable(worker[i].tags[3].raw)
    /\ worker[i].tags[3].time = worker[i].tags[2].time
    /\ worker[i].tags[3].time # emptyTime
    /\ \E t \in TagsOf(j) : t.time \notin {emptyTime, worker[i].tags[3].time}

\* The row at which firstTime is set: the first tag of source i whose time is
\* not the zero time, or 0 when there is none yet.
FirstTimeRow(i) ==
  LET set == {k \in 1..Len(worker[i].tags) : worker[i].tags[k].time # emptyTime}
  IN  IF set = {} THEN 0 ELSE CHOOSE f \in set : \A g \in set : f <= g

\* C8: a line has dayNumber 1 exactly when it or an earlier line of its
\* source, from the line that set firstTime on, has an hour below firstTime's
\* hour minus one; and every line of dayNumber 1 comes after, and has a
\* greater sort key than, every line of dayNumber 0 of its source.
C8_DayRollover ==
  \A i \in DOMAIN worker :
    LET tags == worker[i].tags
        f == FirstTimeRow(i)
    IN  \A r \in 1..Len(tags) :
          /\ tags[r].day = 1 <=>
               /\ f # 0
               /\ \E q \in f..r : tags[q].time.hour < tags[f].time.hour - 1
          /\ tags[r].day = 1 =>
               \A q \in 1..Len(tags) :
                 tags[q].day = 0 => q < r /\ StrLess(tags[q].key, tags[r].key)

\* C8's case: a source of hours 23, 01, 23: the line of hour 01 gets
\* dayNumber 1 and a greater key than the first line, and the line that
\* reports hour 23 again keeps dayNumber 1.
C8_Witness ==
  \E i \in DOMAIN worker :
    /\ Len(worker[i].tags) >= 3
    /\ worker[i].tags[1].time.hour = 23 /\ worker[i].tags[1].day = 0
    /\ worker[i].tags[2].time.hour = 1 /\ worker[i].tags[2].day = 1
    /\ worker[i].tags[3].time.hour = 23 /\ worker[i].tags[3].day = 1
    /\ StrLess(worker[i].tags[1].key, worker[i].tags[2].key)

\* C9: dayNumber of a goroutine is always 0 or 1, and no step of the run
\* makes it smaller.
C9_DayNumberMonotonic ==
  /\ [](\A i \in DOMAIN worker : worker[i].dayNumber \in {0, 1})
  /\ [][\A i \in DOMAIN worker : worker'[i].dayNumber >= worker[i].dayNumber]_vars

\* C9's case: a goroutine whose dayNumber is 1 has read, after the line that
\* set it, a line of the hour of its first line.
C9_Witness ==
  \E i \in DOMAIN worker :
    /\ worker[i].dayNumber = 1
    /\ worker[i].pc \in {"sendResult", "done"}
    /\ \E q \in 1..Len(worker[i].tags) :
         /\ worker[i].tags[q].day = 1
         /\ q < Len(worker[i].tags)
         /\ worker[i].lineTime.hour = worker[i].tags[1].time.hour

\* C10: all sort keys of a run have one length, the first 35 characters of a
\* composed line are its sort key and the separator, and what is left after
\* them is the display time, the tag and the input line, whole.  (Fails on
\* the code: the key of source index 10000 is 35 characters long.)
C10_KeyIsTheStrippedPrefix ==
  \A t \in AllTags :
    LET composed == ComposeLine(t.key, t.time, t.short, t.raw)
    IN  /\ \A u \in AllTags : Len(u.key) = Len(t.key)
        /\ SubSeq(composed, 1, StripLen) = t.key \o <<" ">>
        /\ SliceFrom(composed, StripLen) = Visible(t.time, t.short, t.raw)

(***************************************************************************)
(* src/combiner.go: the time key                                           *)
(***************************************************************************)

\* [A-Z], [a-z] and \w of the line formats.
UpperChars == {Ascii[k] : k \in 34..59}
LowerChars == {Ascii[k] : k \in 66..91}
WordChars == UpperChars \cup LowerChars \cup {"_"} \cup {DigitChars[k] : k \in 1..10}

\* Whether \d{2}:\d{2}:\d{2} followed, when frac > 0, by . (any character) and
\* frac digits matches the line at position p (1-based).
TimeKeyAt(line, p, frac) ==
  LET n == IF frac = 0 THEN 8 ELSE 9 + frac
  IN  /\ p >= 1
      /\ p + n - 1 <= Len(line)
      /\ \A k \in {0, 1, 3, 4, 6, 7} : IsDigit(line[p + k])
      /\ line[p + 2] = ":"
      /\ line[p + 5] = ":"
      /\ \A k \in 9..(8 + frac) : IsDigit(line[p + k])

RECURSIVE RunEnd(_, _, _)
\* The last position of the longest run of characters of S that starts at p;
\* p - 1 when there is none.
RunEnd(line, p, S) ==
  IF p <= Len(line) /\ line[p] \in S THEN RunEnd(line, p + 1, S) ELSE p - 1

\* ^\w\d{4} before the time of lineFormat1 and lineFormat2: where the time
\* starts, or 0.
LevelHead(line) ==
  IF /\ Len(line) >= 6
     /\ line[1] \in WordChars
     /\ \A k \in 2..5 : IsDigit(line[k])
     /\ line[6] = " "
  THEN 7 ELSE 0

\* ^[A-Z][a-z]+ \d+ before the time of lineFormat3 and lineFormat4: where the
\* time starts, or 0.
MonthHead(line) ==
  IF Len(line) >= 1 /\ line[1] \in UpperChars
  THEN LET word == RunEnd(line, 2, LowerChars)
           num == RunEnd(line, word + 2, {DigitChars[k] : k \in 1..10})
       IN  IF /\ word >= 2
              /\ word + 1 <= Len(line) /\ line[word + 1] = " "
              /\ num >= word + 2
              /\ num + 1 <= Len(line) /\ line[num + 1] = " "
           THEN num + 2 ELSE 0
  ELSE 0

\* ^time="\d{4}-\d{2}-\d{2}T before the time of lineFormat5, and Z after it:
\* where the time starts, or 0.
StampHead(line) ==
  IF /\ Len(line) >= 36
     /\ SubSeq(line, 1, 6) = <<"t", "i", "m", "e", "=", "\"">>
     /\ \A k \in {7, 8, 9, 10, 12, 13, 15, 16} : IsDigit(line[k])
     /\ line[11] = "-" /\ line[14] = "-" /\ line[17] = "T"
     /\ line[36] = "Z"
  THEN 18 ELSE 0

\* Where the first match of \d{2}:\d{2}:\d{2}[.\d{frac}] in the line starts, or 0.
Leftmost(line, frac) ==
  LET first(at) == IF at = {} THEN 0 ELSE CHOOSE q \in at : \A r \in at : q <= r
  IN  CHOOSE p \in {first(at) : at \in {{q \in 1..Len(line) : TimeKeyAt(line, q, frac)}}} : TRUE

\* Per line format 1 .. 8: the fraction digits of its time, where its time
\* starts in the line when the format matches (else 0), and the zeros
\* getTimeKey appends to match[1].
FormatFrac == <<6, 3, 6, 3, 9, 6, 3, 0>>

FormatZeros == <<3, 6, 3, 6, 0, 3, 6, 9>>

FormatStart(line, f) ==
  LET at == CASE f \in {1, 2} -> LevelHead(line)
              [] f \in {3, 4} -> MonthHead(line)
              [] f = 5 -> StampHead(line)
              [] OTHER -> Leftmost(line, FormatFrac[f])
  IN  IF at > 0 /\ TimeKeyAt(line, at, FormatFrac[f]) THEN at ELSE 0

\* The first format that matches the line, or 0.
FirstFormat(line) ==
  LET hits == {f \in 1..8 : FormatStart(line, f) > 0}
  IN  IF hits = {} THEN 0 ELSE CHOOSE f \in hits : \A g \in hits : f <= g

\* getTimeKey: match[1] of the first format that matches, with the zeros of
\* that format appended, or the default.
getTimeKey(line, defaultTimeKey) ==
  LET key(f) ==
        IF f = 0 THEN defaultTimeKey
        ELSE LET at == FormatStart(line, f)
                 n == IF FormatFrac[f] = 0 THEN 8 ELSE 9 + FormatFrac[f]
             IN  SubSeq(line, at, at + n - 1) \o Repeat("0", FormatZeros[f])
  IN  CHOOSE k \in {key(f) : f \in {FirstFormat(line)}} : TRUE

(***************************************************************************)
(* src/combiner.go: the goroutines and main                                *)
(***************************************************************************)

TimeKeyLen == 18
CombinerStripLen == 30

\* noTimeKey := strings.Repeat(" ", 18)
noTimeKey == Repeat(" ", TimeKeyLen)

\* "%d:%s:%08d [%04d] ": what a line of combiner.go starts with.
CombinerKey(dayKey, timeKey, rowNumber, i) ==
  DecDigits(dayKey) \o <<":">> \o timeKey \o <<":">> \o PadInt(rowNumber, RowDigits)
    \o <<" ", "[">> \o PadInt(i, IndexDigits) \o <<"]", " ">>

\* The line a goroutine starts its batch with: "%d:%s:%08d [%04d] --> %s".
CombinerHeader(i, nameWithoutPrefix) ==
  CombinerKey(0, noTimeKey, 0, i) \o <<"-", "-", ">", " ">> \o nameWithoutPrefix

\* The line composed of a line read: "%d:%s:%08d [%04d] %-62s %s".
CombinerLine(dayKey, timeKey, rowNumber, i, short, line) ==
  CombinerKey(dayKey, timeKey, rowNumber, i)
    \o PadRight(<<"[">> \o short \o <<"]">>, TagWidth) \o <<" ">> \o line

\* A goroutine of combiner.go at its first statement.
CombinerWorker ==
  [pc |-> "open", readerOk |-> TRUE, dayKey |-> 0, timeKey |-> noTimeKey,
   firstTimeKey |-> noTimeKey, rowNumber |-> 0, lines |-> <<>>,
   \* history: the errors met, the sends on errorChan that were received, and
   \* per line read the values its line was made of
   failures |-> {}, sent |-> 0, tags |-> <<>>]

\* The locals set and the header appended before the scan loop.
CombinerStart(w, i, name) ==
  [w EXCEPT !.pc = "scan",
            !.lines = <<CombinerHeader(i, TrimPrefix(name, prefix))>>]

\* One turn of for scanner.Scan(): the line is read, its time key taken, and
\* its line appended.
CombinerRead(w, i, f) ==
  LET line == f.content[w.rowNumber + 1]
      row == w.rowNumber + 1
      read(key, short) ==
        [w EXCEPT !.rowNumber = row, !.timeKey = key,
                  !.firstTimeKey = IF @ = noTimeKey THEN key ELSE @,
                  !.lines = Append(@, CombinerLine(w.dayKey, key, row, i, short, line)),
                  !.tags = Append(@, [day |-> w.dayKey, key |-> key, index |-> i,
                                      row |-> row, short |-> short, raw |-> line])]
  IN  CHOOSE next \in {read(key, short) :
                         key \in {getTimeKey(line, w.timeKey)},
                         short \in {shortName(TrimPrefix(f.name, prefix))}} : TRUE

\* reader, err := bucket.Object(name).NewReader(ctx)
CombinerOpen(i) ==
  /\ Running
  /\ worker[i].pc = "open"
  /\ worker' = [worker EXCEPT ![i] =
       IF files[i].openFails
       THEN [@ EXCEPT !.pc = "sendOpenErr", !.readerOk = FALSE, !.failures = @ \cup {"open"}]
       ELSE CombinerStart(@, i, files[i].name)]
  /\ UNCHANGED <<nObjects, prefix, stdoutOk, files, resultChan, mainPc, received, combinedLines, arrived, stdout>>

\* for scanner.Scan() { ... } on a reader that opened, a line at a time; after
\* the last line the batch is ready to be sent.
CombinerScan(i) ==
  /\ Running
  /\ worker[i].pc = "scan"
  /\ worker[i].readerOk
  /\ worker[i].rowNumber < Len(files[i].content) \/ ~files[i].scanFails
  /\ worker' = [worker EXCEPT ![i] =
       IF @.rowNumber < Len(files[i].content)
       THEN CombinerRead(@, i, files[i])
       ELSE [@ EXCEPT !.pc = "sendResult"]]
  /\ UNCHANGED <<nObjects, prefix, stdoutOk, files, resultChan, mainPc, received, combinedLines, arrived, stdout>>

\* if scanner.Err() != nil { log.Fatal(scanner.Err()) }: the goroutine ends
\* the process with status 1.
CombinerScanFatal(i) ==
  /\ Running
  /\ worker[i].pc = "scan"
  /\ worker[i].readerOk
  /\ worker[i].rowNumber = Len(files[i].content)
  /\ files[i].scanFails
  /\ worker' = [worker EXCEPT ![i].failures = @ \cup {"scan"}]
  /\ mainPc' = "exit1"
  /\ UNCHANGED <<nObjects, prefix, stdoutOk, files, resultChan, received, combinedLines, arrived, stdout>>

\* scanner.Scan() on the nil *storage.Reader of a failed open: Read
\* dereferences nil and the panic ends the process.
CombinerPanic(i) ==
  /\ Running
  /\ worker[i].pc = "scan"
  /\ ~worker[i].readerOk
  /\ mainPc' = "crashed"
  /\ UNCHANGED <<nObjects, prefix, stdoutOk, files, worker, resultChan, received, combinedLines, arrived, stdout>>

\* resultChan <- lines
CombinerSendResult(i) ==
  /\ Running
  /\ worker[i].pc = "sendResult"
  /\ Len(resultChan) < ChanCap
  /\ resultChan' = Append(resultChan, worker[i].lines)
  /\ worker' = [worker EXCEPT ![i].pc = "done"]
  /\ UNCHANGED <<nObjects, prefix, stdoutOk, files, mainPc, received, combinedLines, arrived, stdout>>

\* case lines := <-resultChan: combinedLines = append(combinedLines, lines...)
CombinerRecvResult ==
  /\ mainPc = "collect"
  /\ received < nObjects
  /\ resultChan # <<>>
  /\ combinedLines' = combinedLines \o Head(resultChan)
  /\ arrived' = arrived \o Head(resultChan)
  /\ resultChan' = Tail(resultChan)
  /\ received' = received + 1
  /\ UNCHANGED <<nObjects, prefix, stdoutOk, files, worker, mainPc, stdout>>

\* case err := <-errorChan: log.Fatal(err); the goroutine that sent goes on
\* to its scan loop.
CombinerRecvError(i) ==
  /\ mainPc = "collect"
  /\ received < nObjects
  /\ worker[i].pc = "sendOpenErr"
  /\ mainPc' = "fatal"
  /\ worker' = [worker EXCEPT ![i] =
       CombinerStart([@ EXCEPT !.sent = @ + 1], i, files[i].name)]
  /\ UNCHANGED <<nObjects, prefix, stdoutOk, files, resultChan, received, combinedLines, arrived, stdout>>

\* The lines written: line[30:] of each sorted line.
CombinerWritten(sorted) ==
  [k \in 1..Len(sorted) |-> SliceFrom(sorted[k], CombinerStripLen)]

\* sort.Strings(combinedLines), then every line handed to the buffered writer
\* without its first 30 characters; main returns through the deferred Flush,
\* or log.Fatalf ends it when a write failed.
CombinerFinish ==
  /\ mainPc = "collect"
  /\ received = nObjects
  /\ \E sorted \in {SortStrings(combinedLines)} :
       /\ combinedLines' = sorted
       /\ \E end \in {WriteAll(CombinerWritten(sorted))} :
            /\ stdout' = end.stdout
            /\ mainPc' = end.pc
  /\ UNCHANGED <<nObjects, prefix, stdoutOk, files, worker, resultChan, received, arrived>>

\* log.Fatal in main: os.Exit(1)
CombinerExit ==
  /\ mainPc = "fatal"
  /\ mainPc' = "exit1"
  /\ UNCHANGED <<nObjects, prefix, stdoutOk, files, worker, resultChan, received, combinedLines, arrived, stdout>>

CombinerNext ==
  \/ \E i \in DOMAIN worker : CombinerOpen(i)
  \/ \E i \in DOMAIN worker : CombinerScan(i)
  \/ \E i \in DOMAIN worker : CombinerScanFatal(i)
  \/ \E i \in DOMAIN worker : CombinerPanic(i)
  \/ \E i \in DOMAIN worker : CombinerSendResult(i)
  \/ CombinerRecvResult
  \/ \E i \in DOMAIN worker : CombinerRecvError(i)
  \/ CombinerFinish
  \/ CombinerExit

\* The most lines of a source of combiner.go.
CombinerMaxLines == 2

\* "22:10:34", ".002", ".002031" and ".000", ".000000"
TimeText == <<"2", "2", ":", "1", "0", ":", "3", "4">>
MilliText == <<".", "0", "0", "2">>
MicroText == <<".", "0", "0", "2", "0", "3", "1">>
\* "I1234 " and "Aug 24 "
LevelText == <<"I", "1", "2", "3", "4", " ">>
MonthText == <<"A", "u", "g", " ", "2", "4", " ">>

\* The examples of lineFormat1 .. lineFormat8 in combiner.go
\* "I1234 22:10:34.002031"
Format1Line == LevelText \o TimeText \o MicroText
\* "I1234 22:10:34.002"
Format2Line == LevelText \o TimeText \o MilliText
\* "Aug 24 22:10:34.000000"
Format3Line == MonthText \o TimeText \o <<".", "0", "0", "0", "0", "0", "0">>
\* "Aug 24 22:10:34.000"
Format4Line == MonthText \o TimeText \o <<".", "0", "0", "0">>
\* time="2020-09-01T05:59:37.283814575Z"
Format5Line ==
  <<"t", "i", "m", "e", "=", "\"", "2", "0", "2", "0", "-", "0", "9", "-", "0", "1", "T",
    "0", "5", ":", "5", "9", ":", "3", "7", ".", "2", "8", "3", "8", "1", "4", "5", "7", "5",
    "Z", "\"">>
\* "at 22:10:34.002031"
Format6Line == <<"a", "t", " ">> \o TimeText \o MicroText
\* "at 22:10:34.002"
Format7Line == <<"a", "t", " ">> \o TimeText \o MilliText
\* "22:10:34"
Format8Line == TimeText

CombinerLines ==
  {Format1Line, Format2Line, Format3Line, Format4Line, Format5Line, Format6Line,
   Format7Line, Format8Line, LineNone}

\* The lines of two sources read together: without a time, and with one.
CombinerPairLines == {LineNone, Format2Line}

\* The goroutines of the sources fs[1] .. fs[k] have just been started.
CombinerInitOn(ok, k, fs) ==
  /\ nObjects = k
  /\ prefix \in Prefixes
  /\ stdoutOk = ok
  /\ files = [i \in 0..(k - 1) |->
                [name |-> NameOf(i), content |-> fs[i + 1].content,
                 openFails |-> fs[i + 1].openFails, scanFails |-> fs[i + 1].scanFails]]
  /\ \A i \in DOMAIN files : Listed(files[i].name)
  /\ worker = [i \in 0..(k - 1) |-> CombinerWorker]
  /\ resultChan = <<>>
  /\ mainPc = "collect"
  /\ received = 0
  /\ combinedLines = <<>>
  /\ arrived = <<>>
  /\ stdout = <<>>

\* The same on an os.Stdout that takes every write.
CombinerInitFrom(k, fs) == CombinerInitOn(TRUE, k, fs)

\* One source of up to CombinerMaxLines lines of any format, read to its end
\* or failing in the scan; a source that fails to open; two sources of lines
\* with and without a time; or one source on an os.Stdout that takes no write.
CombinerInit ==
  \/ \E c \in SeqsUpTo(CombinerLines, CombinerMaxLines) : \E e \in BOOLEAN :
       CombinerInitFrom(1, <<File(c, FALSE, e)>>)
  \/ CombinerInitFrom(1, <<File(<<>>, TRUE, FALSE)>>)
  \/ \E c \in SeqsUpTo(CombinerPairLines, CombinerMaxLines) :
       \E d \in SeqsUpTo(CombinerPairLines, CombinerMaxLines) :
         CombinerInitFrom(2, <<File(c, FALSE, FALSE), File(d, FALSE, FALSE)>>)
  \/ \E f \in MuteCatalog : CombinerInitOn(FALSE, 1, <<f>>)

CombinerSpec == CombinerInit /\ [][CombinerNext]_vars

\* The values the lines composed so far were made of.
CombinerTags == UNION {{worker[i].tags[k] : k \in 1..Len(worker[i].tags)} : i \in DOMAIN worker}

\* Whether the text has the shape HH:MM:SS.nnnnnnnnn.
IsNanoKey(key) ==
  /\ Len(key) = TimeKeyLen
  /\ \A k \in {1, 2, 4, 5, 7, 8} \cup 10..18 : IsDigit(key[k])
  /\ key[3] = ":" /\ key[6] = ":" /\ key[9] = "."

\* C11: the time key of every line that a format matches has the shape
\* HH:MM:SS.nnnnnnnnn, 18 characters, so that a key of the bare time is below
\* the key of a later time in the same second, and the 30 characters removed
\* from such a line are its day key, time key and row number, the index tag
\* staying whole.  (Fails on the code: lineFormat8 gives 17 characters, the
\* time and nine zeros without the point.)
C11_TimeKeyIsNanoShaped ==
  \A t \in CombinerTags :
    FirstFormat(t.raw) # 0 =>
      /\ IsNanoKey(t.key)
      /\ \A u \in CombinerTags :
           (FirstFormat(t.raw) = 8 /\ IsNanoKey(u.key)
              /\ SubSeq(u.key, 1, 8) = SubSeq(t.key, 1, 8) /\ u.key # t.key)
             => StrLess(t.key, u.key)
      /\ SubSeq(SliceFrom(CombinerLine(t.day, t.key, t.row, t.index, t.short, t.raw),
                          CombinerStripLen), 1, 7)
           = <<"[">> \o PadInt(t.index, IndexDigits) \o <<"]", " ">>

\* Where the line made of the values t stands in the sorted lines.
CombinerPos(t) ==
  CHOOSE k \in 1..Len(combinedLines) :
    combinedLines[k] = CombinerLine(t.day, t.key, t.row, t.index, t.short, t.raw)

\* C12: of two lines read with the same day key and time key, the line of the
\* source of lower index is emitted first, whatever their row numbers, and two
\* lines of one source are emitted in row order.  (Fails on the code: the row
\* number stands before the index in the key, so row 1 of the second source
\* is emitted before row 2 of the first.)
C12_SourceOrderBeforeRowOrder ==
  mainPc = "exit0" =>
    \A a \in CombinerTags : \A b \in CombinerTags :
      (a.day = b.day /\ a.key = b.key
         /\ (a.index < b.index \/ (a.index = b.index /\ a.row < b.row)))
        => CombinerPos(a) < CombinerPos(b)

(***************************************************************************)
(* src/unnamed/part_000: the time of a line, the tag, the channels         *)
(***************************************************************************)

RECURSIVE FracNanos(_, _, _)
\* The nanoseconds written by the k fraction digits after position at.
FracNanos(line, at, k) ==
  IF k = 0 THEN 0
  ELSE FracNanos(line, at, k - 1) + DigitVal(line[at + k]) * Pow10(9 - k)

\* The time written in the line: of the patterns of 9, 6, 3 and no fraction
\* digits the first that matches somewhere, at its leftmost match.
WrittenTime(line) ==
  LET fracs == {n \in {9, 6, 3, 0} : \E q \in 1..Len(line) : MatchesAt(line, q, n)}
      frac == CHOOSE n \in fracs : \A o \in fracs : o <= n
      p == CHOOSE q \in 1..Len(line) :
             MatchesAt(line, q, frac) /\ \A r \in 1..(q - 1) : ~MatchesAt(line, r, frac)
  IN  [hour |-> 10 * DigitVal(line[p]) + DigitVal(line[p + 1]),
       minute |-> 10 * DigitVal(line[p + 3]) + DigitVal(line[p + 4]),
       second |-> 10 * DigitVal(line[p + 6]) + DigitVal(line[p + 7]),
       nano |-> FracNanos(line, p + 8, frac)]

\* Whether the fields are those of a time of day.
IsClock(t) == t.hour < 24 /\ t.minute < 60 /\ t.second < 60

\* C13: a line that some pattern matches is tagged with the time written at
\* the leftmost match of the most precise pattern that matches: its hour,
\* minute and second, and as nanoseconds its fraction digits followed by
\* zeros.  (Fails on the code: for a matched text that is no time of day,
\* 25:61:61, time.Parse returns the zero time beside its error, and the
\* goroutine, which does not return after sending the error, tags the line
\* with 00:00:00.)
C13_MostPrecisePatternWins ==
  \A t \in AllTags :
    Recognizable(t.raw) =>
      /\ t.time.hour = WrittenTime(t.raw).hour
      /\ t.time.minute = WrittenTime(t.raw).minute
      /\ t.time.second = WrittenTime(t.raw).second
      /\ t.time.nano = WrittenTime(t.raw).nano

\* C13's case: the line "25:61:61", which timePattern matches, was tagged
\* with hour, minute and second 0 instead of the 25, 61 and 61 written in it.
C13_Witness ==
  \E t \in AllTags :
    /\ t.raw = LineBad
    /\ Recognizable(t.raw)
    /\ WrittenTime(t.raw).hour = 25
    /\ t.time.hour = 0 /\ t.time.minute = 0 /\ t.time.second = 0

\* The longest name of a source, after its prefix.
MaxNameLen == 80

\* The suffix of the names listed.
DotLog == <<".", "l", "o", "g">>

\* The prefix under which a listed name has n characters left: the directory
\* "/d", or for a name left with less than ".log" the start of the name up to
\* there (the path of the file itself leaves nothing, a bucket prefix that ends
\* inside the name leaves the rest).
NamePrefix(n) ==
  IF n >= Len(DotLog) THEN <<"/", "d">>
  ELSE <<"/", "d">> \o SubSeq(DotLog, 1, Len(DotLog) - n)

\* A listed name of n characters after NamePrefix(n): "/d.log", or "/d", then
\* "/" and letters of which no two of the first 26 are alike, then ".log".
LongName(n) ==
  IF n <= Len(DotLog) THEN <<"/", "d">> \o DotLog
  ELSE <<"/", "d", "/">> \o [k \in 1..(n - Len(DotLog) - 1) |-> Ascii[34 + (k % 26)]]
         \o DotLog

\* One source of the catalog under a name of up to MaxNameLen characters.
InitName ==
  \E n \in 0..MaxNameLen : \E f \in Catalog :
    /\ nObjects = 1
    /\ prefix = NamePrefix(n)
    /\ stdoutOk = TRUE
    /\ files = [i \in {0} |->
                  [name |-> LongName(n), content |-> f.content,
                   openFails |-> f.openFails, scanFails |-> f.scanFails]]
    /\ \A i \in DOMAIN files : Listed(files[i].name)
    /\ worker = [i \in {0} |-> NewWorker]
    /\ resultChan = <<>>
    /\ mainPc = "collect"
    /\ received = 0
    /\ combinedLines = <<>>
    /\ arrived = <<>>
    /\ stdout = <<>>

SpecName == InitName /\ [][Next]_vars

\* C14: the name in the tag of a line is the name of its source after the
\* prefix when that has at most 60 characters, and otherwise its first 17
\* characters, "..." and its last 40; it never has more than 60 characters,
\* and the bracketed tag takes exactly the 62 characters of its column.
C14_ShortNameFitsTheColumn ==
  \A t \in AllTags :
    LET name == SliceFrom(files[t.index].name, Len(prefix))
        n == Len(name)
        line == ComposeLine(t.key, t.time, t.short, t.raw)
    IN  /\ n <= 60 => t.short = name
        /\ n > 60 =>
             /\ t.short = [k \in 1..60 |->
                             IF k <= 17 THEN name[k]
                             ELSE IF k <= 20 THEN "."
                             ELSE name[n - 60 + k]]
             /\ t.short # name
        /\ Len(t.short) <= 60
        /\ Len(line) = Len(t.key) + 1 + 18 + 1 + 62 + 1 + Len(t.raw)
        /\ line[Len(t.key) + 21] = "["
        /\ line[Len(t.key) + 22 + Len(t.short)] = "]"
        /\ SliceFrom(line, Len(line) - Len(t.raw)) = t.raw

\* C14's case: a line of a source whose name has 80 characters was tagged
\* with 60 of them.
C14_Witness ==
  \E t \in AllTags :
    /\ Len(files[t.index].name) - Len(prefix) = 80
    /\ Len(t.short) = 60
    /\ SubSeq(t.short, 18, 20) = <<".", ".", ".">>
    /\ mainPc = "exit0"

\* The sends of goroutine i that were received or buffered: each errorChan <-
\* that main received, and its batch.
ErrorsSent(i) == worker[i].sent

BatchesSent(i) == IF worker[i].pc = "done" THEN 1 ELSE 0

\* C15: a goroutine that met an open error or a scan error goes on to no
\* further statement of its source and sends no batch, and every goroutine
\* sends at most one message, an error or a batch.  (Fails on the code: the
\* goroutine does not return after its send on errorChan; after a scan error
\* it sends its batch as well.)
C15_OneMessagePerWorker ==
  \A i \in DOMAIN worker :
    /\ ErrorsSent(i) + BatchesSent(i) <= 1
    /\ worker[i].failures \cap {"open", "scan"} # {} =>
         worker[i].pc \notin {"scan", "tag", "sendResult", "done"}
    /\ worker[i].pc = "done" => worker[i].failures = {}

\* The rows of source i tagged so far whose line holds a time of day.
ExtractedRows(i) ==
  {k \in 1..Len(worker[i].tags) :
     Recognizable(worker[i].tags[k].raw) /\ IsClock(WrittenTime(worker[i].tags[k].raw))}

\* C16: firstTime of a goroutine is the zero time until the first line whose
\* time a pattern extracts, from then on the time of that line (00:00:00
\* included), and no step changes it once it is set.
C16_FirstTimeSetOnce ==
  /\ [](\A i \in DOMAIN worker :
          worker[i].firstTime =
            IF ExtractedRows(i) = {} THEN emptyTime
            ELSE LET f == CHOOSE k \in ExtractedRows(i) : \A j \in ExtractedRows(i) : k <= j
                 IN  worker[i].tags[f].time)
  /\ [][\A i \in DOMAIN worker :
          worker[i].firstTime # emptyTime => worker'[i].firstTime = worker[i].firstTime]_vars

\* C16's case: after a line without a time, the line 00:00:00 set firstTime,
\* and a later line of hour 23 left it as it was.
C16_Witness ==
  \E i \in DOMAIN worker :
    /\ Len(worker[i].tags) >= 3
    /\ worker[i].tags[1].raw = LineNone
    /\ worker[i].tags[2].raw = Line00
    /\ worker[i].tags[3].time.hour = 23
    /\ worker[i].firstTime = worker[i].tags[2].time
    /\ worker[i].firstTime # emptyTime
    /\ worker[i].firstTime.hour = 0

\* The first of two sources merged: lines without a time only, a line without
\* a time after one with a time, times that fall, times that rise, no line.
MergeCatalog ==
  { File(<<LineNone, LineNone>>, FALSE, FALSE),
    File(<<Line22, LineNone>>, FALSE, FALSE),
    File(<<Line23, Line22>>, FALSE, FALSE),
    File(<<Line22, Line23>>, FALSE, FALSE),
    File(<<>>, FALSE, FALSE) }

\* The lines of the second of two sources merged.
MergeLines == {LineNone, Line22}

\* Two sources merged, the second over every text of up to MaxLines lines
\* with and without the time of the first; one source of the catalog; or one
\* source of the first kind on an os.Stdout that takes no write.
InitMerge ==
  \/ \E c \in MergeCatalog : \E d \in SeqsUpTo(MergeLines, MaxLines) :
       InitFrom(0, 0, 2, <<c, File(d, FALSE, FALSE)>>)
  \/ \E f \in Catalog : InitFrom(0, 0, 1, <<f>>)
  \/ \E c \in MergeCatalog : InitOn(FALSE, 0, 0, 1, <<c>>)

SpecMerge == InitMerge /\ [][Next]_vars

\* Where the line made of the values t stands in the sorted lines.
PosOf(t) ==
  CHOOSE k \in 1..Len(combinedLines) :
    combinedLines[k] = ComposeLine(t.key, t.time, t.short, t.raw)

\* C17: in a successful run a line no pattern matches stands right after the
\* line read before it from its source, in the sorted lines and in the lines
\* of them that were written.
C17_NoTimeLineFollowsItsPredecessor ==
  mainPc = "exit0" =>
    \A i \in DOMAIN worker : \A r \in 2..Len(worker[i].tags) :
      ~Recognizable(worker[i].tags[r].raw) =>
        /\ PosOf(worker[i].tags[r]) = PosOf(worker[i].tags[r - 1]) + 1
        /\ \A k \in DOMAIN stdout :
             /\ k = PosOf(worker[i].tags[r - 1]) =>
                  EndsWith(stdout[k], worker[i].tags[r - 1].raw)
             /\ k = PosOf(worker[i].tags[r - 1]) + 1 =>
                  EndsWith(stdout[k], worker[i].tags[r].raw)

\* C17's case: a line without a time was emitted right after the line with a
\* time read before it, in a run in which another source had two lines of
\* that same time.
C17_Witness ==
  /\ mainPc = "exit0"
  /\ \E i \in DOMAIN worker : \E j \in DOMAIN worker \ {i} :
       /\ Len(worker[i].tags) >= 2
       /\ Recognizable(worker[i].tags[1].raw)
       /\ ~Recognizable(worker[i].tags[2].raw)
       /\ PosOf(worker[i].tags[2]) = PosOf(worker[i].tags[1]) + 1
       /\ Cardinality({t \in TagsOf(j) : t.time = worker[i].tags[2].time}) >= 2

\* The clock of a time, for comparison.
ClockOf(t) == <<t.hour, t.minute, t.second, t.nano>>

\* Whether the times the patterns extract from source i never fall from a line
\* to a later one.
NeverDecreases(i) ==
  \A q \in ExtractedRows(i) : \A r \in ExtractedRows(i) :
    q < r => ~TupleLess(ClockOf(worker[i].tags[r].time), ClockOf(worker[i].tags[q].time))

\* C18: in the output of a successful run the lines of a source whose
\* extracted times never decrease stand in the order they were read.
C18_MonotoneSourceKeepsFileOrder ==
  mainPc = "exit0" =>
    \A i \in DOMAIN worker :
      NeverDecreases(i) =>
        \A q \in 1..Len(worker[i].tags) : \A r \in 1..Len(worker[i].tags) :
          q < r => PosOf(worker[i].tags[q]) < PosOf(worker[i].tags[r])

\* C18's case: a source of rising times was emitted in the order read, with a
\* line of another source between its first and its last line.
C18_Witness ==
  /\ mainPc = "exit0"
  /\ \E i \in DOMAIN worker : \E j \in DOMAIN worker \ {i} :
       /\ Len(worker[i].tags) >= 2
       /\ NeverDecreases(i)
       /\ Cardinality({ClockOf(t.time) : t \in TagsOf(i)}) >= 2
       /\ \E t \in TagsOf(j) :
            /\ PosOf(worker[i].tags[1]) < PosOf(t)
            /\ PosOf(t) < PosOf(worker[i].tags[Len(worker[i].tags)])

=============================================================================
